---- MODULE Spec2Model ----
(***************************************************************************)
(* A model of cjio/model.py: CityModel.get_cityobjects, the semantic       *)
(* surface index of SemanticSurface, and the Geometry constructor with its *)
(* boundary dereferencing and surface resolution.                          *)
(*                                                                         *)
(* Python values are tagged records [t, v]: None, an int, a str (a tuple   *)
(* of characters), a list (a tuple of values) and a vertex coordinate      *)
(* (a triple of numbers).  A call either returns a value or raises; an     *)
(* outcome is the record [status, value] with status "ok" or the name of   *)
(* the exception raised.                                                   *)
(***************************************************************************)
EXTENDS Integers, Sequences, FiniteSets, TLC

VARIABLES pc, call, result, gen, yielded

vars == <<pc, call, result, gen, yielded>>

(***************************************************************************)
(* Bounds of the input sets.                                               *)
(***************************************************************************)
MaxVertices == 2
MaxRing == 2
MaxId == 1
MaxValues == 3
MaxWidth == 2
MaxObjects == 3
MaxPasses == 2

(***************************************************************************)
(* Python values and outcomes.                                             *)
(***************************************************************************)
None == [t |-> "none", v |-> 0]
PyInt(n) == [t |-> "int", v |-> n]
PyStr(s) == [t |-> "str", v |-> s]
PyList(s) == [t |-> "list", v |-> s]
Pt(x, y, z) == [t |-> "pt", v |-> <<x, y, z>>]

Ok(x) == [status |-> "ok", value |-> x]
Raise(e) == [status |-> e, value |-> None]

IsList(x) == x.t = "list"
IsNone(x) == x.t = "none"

\* Python truthiness: `not x` for the values the program tests.
Falsy(x) ==
    CASE x.t = "none" -> TRUE
      [] x.t = "int" -> x.v = 0
      [] x.t = "str" -> x.v = <<>>
      [] x.t = "list" -> x.v = <<>>
      [] x.t = "dict" -> x.v.keys = {}
      [] OTHER -> FALSE

SetMin(S) == CHOOSE m \in S : \A n \in S : m <= n

SeqsUpTo(S, n) == UNION {[1..m -> S] : m \in 0..n}

(***************************************************************************)
(* str.lower(), character by character.                                    *)
(***************************************************************************)
UpperCase == <<"A", "B", "C", "D", "E", "F", "G", "H", "I", "J", "K", "L", "M",
               "N", "O", "P", "Q", "R", "S", "T", "U", "V", "W", "X", "Y", "Z">>
LowerCase == <<"a", "b", "c", "d", "e", "f", "g", "h", "i", "j", "k", "l", "m",
               "n", "o", "p", "q", "r", "s", "t", "u", "v", "w", "x", "y", "z">>

LowerChar(c) ==
    IF \E i \in 1..Len(UpperCase) : UpperCase[i] = c
    THEN LowerCase[CHOOSE i \in 1..Len(UpperCase) : UpperCase[i] = c]
    ELSE c

UpperChar(c) ==
    IF \E i \in 1..Len(LowerCase) : LowerCase[i] = c
    THEN UpperCase[CHOOSE i \in 1..Len(LowerCase) : LowerCase[i] = c]
    ELSE c

Lower(s) == [i \in 1..Len(s) |-> LowerChar(s[i])]

Upper(s) == [i \in 1..Len(s) |-> UpperChar(s[i])]

(***************************************************************************)
(* container[key] for a list or a coordinate: a negative key counts from   *)
(* the end, and only a key outside -len..len-1 raises IndexError.          *)
(***************************************************************************)
GetItem(container, key) ==
    IF container.t \notin {"list", "pt"} \/ key.t # "int" THEN Raise("TypeError")
    ELSE LET n == Len(container.v)
             k == IF key.v < 0 THEN key.v + n + 1 ELSE key.v + 1
         IN IF k >= 1 /\ k <= n
            THEN Ok(IF container.t = "pt" THEN PyInt(container.v[k]) ELSE container.v[k])
            ELSE Raise("IndexError")

\* The list of a comprehension whose elements have the outcomes r, evaluated
\* in order: the first exception propagates.
Collect(r) ==
    LET bad == {k \in 1..Len(r) : r[k].status # "ok"}
    IN IF bad = {} THEN Ok(PyList([k \in 1..Len(r) |-> r[k].value]))
       ELSE r[SetMin(bad)]

(***************************************************************************)
(* Geometry._vertex_mapper and Geometry._dereference_boundary.             *)
(***************************************************************************)
\* Variant: the indices are returned as they are.
VertexMapperKeepIndices(boundary, vertices) ==
    IF ~IsList(boundary) THEN Raise("TypeError")
    ELSE Ok(boundary)

VertexMapper(boundary, vertices) ==
    IF ~IsList(boundary) THEN Raise("TypeError")
    ELSE Collect([k \in 1..Len(boundary.v) |-> GetItem(vertices, boundary.v[k])])

\* The nested loops of one branch: `depth` list levels above the rings.
RECURSIVE DerefLevel(_, _, _)
DerefLevel(depth, boundary, vertices) ==
    IF depth = 0 THEN VertexMapper(boundary, vertices)
    ELSE IF ~IsList(boundary) THEN Raise("TypeError")
    ELSE Collect([k \in 1..Len(boundary.v) |->
                    DerefLevel(depth - 1, boundary.v[k], vertices)])

lit_multipoint == <<"m", "u", "l", "t", "i", "p", "o", "i", "n", "t">>
lit_multilinestring == <<"m", "u", "l", "t", "i", "l", "i", "n", "e", "s", "t", "r", "i", "n", "g">>
lit_multisurface == <<"m", "u", "l", "t", "i", "s", "u", "r", "f", "a", "c", "e">>
lit_compositesurface == <<"c", "o", "m", "p", "o", "s", "i", "t", "e", "s", "u", "r", "f", "a", "c", "e">>
lit_solid == <<"s", "o", "l", "i", "d">>
lit_multisolid == <<"m", "u", "l", "t", "i", "s", "o", "l", "i", "d">>
lit_compositesolid == <<"c", "o", "m", "p", "o", "s", "i", "t", "e", "s", "o", "l", "i", "d">>

\* Variant: without the test of line 146.
DereferenceBoundaryNoEmptyCheck(btype, boundary, vertices) ==
    IF btype.t # "str" THEN Raise("AttributeError")
    ELSE LET k == Lower(btype.v) IN
         IF k = lit_multipoint THEN DerefLevel(0, boundary, vertices)
         ELSE IF k = lit_multilinestring THEN DerefLevel(1, boundary, vertices)
         ELSE IF k = lit_multisurface \/ k = lit_compositesurface
              THEN DerefLevel(2, boundary, vertices)
         ELSE IF k = lit_solid THEN DerefLevel(3, boundary, vertices)
         ELSE IF k = lit_multisolid \/ k = lit_compositesolid
              THEN DerefLevel(4, boundary, vertices)
         ELSE Ok(None)

\* Variant: a final else branch that raises.
DereferenceBoundaryRejectUnknown(btype, boundary, vertices) ==
    IF Falsy(boundary) THEN Ok(PyList(<<>>))
    ELSE IF btype.t # "str" THEN Raise("AttributeError")
    ELSE LET k == Lower(btype.v) IN
         IF k = lit_multipoint THEN DerefLevel(0, boundary, vertices)
         ELSE IF k = lit_multilinestring THEN DerefLevel(1, boundary, vertices)
         ELSE IF k = lit_multisurface \/ k = lit_compositesurface
              THEN DerefLevel(2, boundary, vertices)
         ELSE IF k = lit_solid THEN DerefLevel(3, boundary, vertices)
         ELSE IF k = lit_multisolid \/ k = lit_compositesolid
              THEN DerefLevel(4, boundary, vertices)
         ELSE Raise("ValueError")

DereferenceBoundary(btype, boundary, vertices) ==
    IF Falsy(boundary) THEN Ok(PyList(<<>>))
    ELSE IF btype.t # "str" THEN Raise("AttributeError")
    ELSE LET k == Lower(btype.v) IN
         IF k = lit_multipoint THEN DerefLevel(0, boundary, vertices)
         ELSE IF k = lit_multilinestring THEN DerefLevel(1, boundary, vertices)
         ELSE IF k = lit_multisurface \/ k = lit_compositesurface
              THEN DerefLevel(2, boundary, vertices)
         ELSE IF k = lit_solid THEN DerefLevel(3, boundary, vertices)
         ELSE IF k = lit_multisolid \/ k = lit_compositesolid
              THEN DerefLevel(4, boundary, vertices)
         ELSE Ok(None)

(***************************************************************************)
(* Inputs of the boundary dereferencer.                                    *)
(***************************************************************************)
str_MultiPoint == PyStr(<<"M", "u", "l", "t", "i", "P", "o", "i", "n", "t">>)
str_MultiLineString == PyStr(<<"M", "u", "l", "t", "i", "L", "i", "n", "e", "S", "t", "r", "i", "n", "g">>)
str_MultiSurface == PyStr(<<"M", "u", "l", "t", "i", "S", "u", "r", "f", "a", "c", "e">>)
str_CompositeSurface == PyStr(<<"C", "o", "m", "p", "o", "s", "i", "t", "e", "S", "u", "r", "f", "a", "c", "e">>)
str_Solid == PyStr(<<"S", "o", "l", "i", "d">>)
str_MultiSolid == PyStr(<<"M", "u", "l", "t", "i", "S", "o", "l", "i", "d">>)
str_CompositeSolid == PyStr(<<"C", "o", "m", "p", "o", "s", "i", "t", "e", "S", "o", "l", "i", "d">>)
str_GeometryInstance == PyStr(<<"G", "e", "o", "m", "e", "t", "r", "y", "I", "n", "s", "t", "a", "n", "c", "e">>)
str_Building == PyStr(<<"B", "u", "i", "l", "d", "i", "n", "g">>)
str_Road == PyStr(<<"R", "o", "a", "d">>)

KindNames == {str_MultiPoint, str_MultiLineString, str_MultiSurface,
              str_CompositeSurface, str_Solid, str_MultiSolid, str_CompositeSolid}

TypeArgs ==
    KindNames \cup {PyStr(Upper(s.v)) : s \in KindNames}
              \cup {PyStr(Lower(str_Solid.v)), PyStr(Lower(str_CompositeSurface.v)),
                    str_GeometryInstance, str_Building, None}

Vertex(k) == Pt(k, k + 1, 0)
Table(n) == PyList([k \in 1..n |-> Vertex(k - 1)])
Tables == {None} \cup {Table(n) : n \in 0..MaxVertices}

Indices == {PyInt(n) : n \in -1..MaxVertices}
Rings == {PyList(s) : s \in SeqsUpTo(Indices, MaxRing)}

\* Lists of at most one element of S, and pairs led by a fixed valid element.
Wrap(S) == {PyList(<<>>)} \cup {PyList(<<x>>) : x \in S}
Nest(S, first) ==
    {PyList(<<>>)} \cup {PyList(IF k = 1 THEN <<x>> ELSE <<first, x>>) : k \in 1..2, x \in S}

Ring0 == PyList(<<PyInt(0)>>)
Boundaries1 == Nest(Rings, Ring0)
Boundaries2 == Nest(Boundaries1, PyList(<<Ring0>>))
Boundaries3 == Wrap(Boundaries2)
Boundaries4 == Wrap(Boundaries3)
\* The raw boundaries of `depth` list levels above the rings; None with the rings.
BoundariesAt(depth) ==
    CASE depth = 0 -> {None} \cup Rings
      [] depth = 1 -> Boundaries1
      [] depth = 2 -> Boundaries2
      [] depth = 3 -> Boundaries3
      [] depth = 4 -> Boundaries4

DerefCalls(depth) ==
    {[op |-> "dereference_boundary", btype |-> ty, boundary |-> b, vertices |-> vt] :
        ty \in TypeArgs, b \in BoundariesAt(depth), vt \in Tables}

(***************************************************************************)
(* SemanticSurface._index_surface_boundaries.  The index is the dict in    *)
(* insertion order: a tuple of entries [key, addrs], one per key.  An      *)
(* address [i], [i,j] or [i,j,k] is a tuple of naturals.                   *)
(***************************************************************************)
HasKey(idx, key) == \E n \in 1..Len(idx) : idx[n].key = key

\* surface_idx[key] = [addr] for a new key, surface_idx[key].append(addr) otherwise.
\* Variant: a later address goes before the earlier ones.
PutPrepend(idx, key, addr) ==
    IF HasKey(idx, key)
    THEN [n \in 1..Len(idx) |->
            IF idx[n].key = key THEN [idx[n] EXCEPT !.addrs = <<addr>> \o @] ELSE idx[n]]
    ELSE Append(idx, [key |-> key, addrs |-> <<addr>>])

Put(idx, key, addr) ==
    IF HasKey(idx, key)
    THEN [n \in 1..Len(idx) |->
            IF idx[n].key = key THEN [idx[n] EXCEPT !.addrs = Append(@, addr)] ELSE idx[n]]
    ELSE Append(idx, [key |-> key, addrs |-> <<addr>>])

\* Variant: a list at the fourth level is skipped like a null.
RECURSIVE IndexKSkipDeep(_, _, _, _, _)
IndexKSkipDeep(jdx, i, j, k, idx) ==
    IF k >= Len(jdx) THEN Ok(idx)
    ELSE LET kdx == jdx[k + 1] IN
         IF IsList(kdx) \/ IsNone(kdx) THEN IndexKSkipDeep(jdx, i, j, k + 1, idx)
         ELSE IndexKSkipDeep(jdx, i, j, k + 1, Put(idx, kdx.v, <<i, j, k>>))

\* for k, kdx in enumerate(jdx), from position k on (lines 84-91).
RECURSIVE IndexK(_, _, _, _, _)
IndexK(jdx, i, j, k, idx) ==
    IF k >= Len(jdx) THEN Ok(idx)
    ELSE LET kdx == jdx[k + 1] IN
         IF IsList(kdx) THEN Raise("TypeError")
         ELSE IF ~IsNone(kdx) THEN IndexK(jdx, i, j, k + 1, Put(idx, kdx.v, <<i, j, k>>))
         ELSE IndexK(jdx, i, j, k + 1, idx)

\* for j, jdx in enumerate(idx), from position j on (lines 81-96).
RECURSIVE IndexJ(_, _, _, _)
IndexJ(items, i, j, idx) ==
    IF j >= Len(items) THEN Ok(idx)
    ELSE LET jdx == items[j + 1] IN
         IF IsNone(jdx) THEN IndexJ(items, i, j + 1, idx)
         ELSE IF IsList(jdx)
              THEN LET r == IndexK(jdx.v, i, j, 0, idx) IN
                   IF r.status # "ok" THEN r ELSE IndexJ(items, i, j + 1, r.value)
         ELSE IndexJ(items, i, j + 1, Put(idx, jdx.v, <<i, j>>))

\* for i, idx in enumerate(values), from position i on (lines 78-101).
RECURSIVE IndexI(_, _, _)
IndexI(values, i, idx) ==
    IF i >= Len(values) THEN Ok(idx)
    ELSE LET e == values[i + 1] IN
         IF IsNone(e) THEN IndexI(values, i + 1, idx)
         ELSE IF IsList(e)
              THEN LET r == IndexJ(e.v, i, 0, idx) IN
                   IF r.status # "ok" THEN r ELSE IndexI(values, i + 1, r.value)
         ELSE IndexI(values, i + 1, Put(idx, e.v, <<i>>))

PyIndex(idx) == [t |-> "index", v |-> idx]

IndexSurfaceBoundaries(values) ==
    IF Falsy(values) THEN Ok(PyIndex(<<>>))
    ELSE IF ~IsList(values) THEN Raise("TypeError")
    ELSE LET r == IndexI(values.v, 0, <<>>) IN
         IF r.status # "ok" THEN r ELSE Ok(PyIndex(r.value))

\* A required parameter the caller did not pass.
Missing == [t |-> "missing", v |-> 0]

\* SemanticSurface.__init__ with the surface_idx setter.
SemanticSurfaceInit(type, values, children, parent, attributes) ==
    IF values = Missing THEN Raise("TypeError")
    ELSE LET r == IndexSurfaceBoundaries(values) IN
         IF r.status # "ok" THEN r
         ELSE Ok([t |-> "SemanticSurface",
                  v |-> [type |-> type, children |-> children, parent |-> parent,
                         attributes |-> attributes, surface_idx |-> r.value]])

(***************************************************************************)
(* Inputs of the indexer: values arrays of one to four levels.             *)
(***************************************************************************)
Pairs(A, B) == {PyList(<<a, b>>) : a \in A, b \in B}

Leaves == {None} \cup {PyInt(i) : i \in 0..MaxId}
Flat == {PyList(s) : s \in SeqsUpTo(Leaves, MaxValues)}
Short == {PyList(s) : s \in SeqsUpTo(Leaves, MaxWidth)}
Deep4 == {PyList(<<>>), PyList(<<PyInt(0)>>)}
Level3 == {PyList(s) : s \in SeqsUpTo(Leaves \cup Deep4, MaxWidth)}
\* Lists of one element of S, alone or beside a leaf.
Mix(A, S) ==
    {PyList(CASE k = 1 -> <<x>> [] k = 2 -> <<a, x>> [] k = 3 -> <<x, a>>) :
        k \in 1..3, a \in A, x \in S}
Level2 == {PyList(<<>>)} \cup Mix(Leaves, Level3)
\* The values arrays, in families.
ValuesArgs(family) ==
    CASE family = 1 -> {None} \cup Flat
      [] family = 2 -> Mix(Leaves, Level2)
      [] family = 3 -> Pairs(Short, Short)
      [] family = 4 -> Wrap(Pairs(Short, Short))

str_WallSurface == PyStr(<<"W", "a", "l", "l", "S", "u", "r", "f", "a", "c", "e">>)
str_RoofSurface == PyStr(<<"R", "o", "o", "f", "S", "u", "r", "f", "a", "c", "e">>)

IndexCalls(family) ==
    {[op |-> "index_surface_boundaries", values |-> vs] : vs \in ValuesArgs(family)}
SemanticSurfaceCalls(family) ==
    {[op |-> "SemanticSurface", type |-> str_WallSurface, values |-> vs] :
        vs \in ValuesArgs(family)}

(***************************************************************************)
(* Geometry._dereference_surfaces.  A dict is the set of its keys and the  *)
(* value of each field; the value of an absent key is never read.          *)
(***************************************************************************)
SemanticsObj(keys, values, surfaces) ==
    [t |-> "dict", v |-> [keys |-> keys, values |-> values, surfaces |-> surfaces]]

SurfaceEntry(keys, type, children, parent, slope) ==
    [t |-> "dict", v |-> [keys |-> keys, type |-> type, children |-> children,
                          parent |-> parent, slope |-> slope]]

PyMap(entries) == [t |-> "map", v |-> entries]

NoLocals == [bound |-> {}, type |-> None, children |-> None, parent |-> None]

\* for key, value in srf.items(): the locals type, children and parent keep the
\* value of an earlier entry when this entry has no such key.
BindLocals(locals, srf) ==
    [bound |-> locals.bound \cup (srf.v.keys \cap {"type", "children", "parent"}),
     type |-> IF "type" \in srf.v.keys THEN srf.v.type ELSE locals.type,
     children |-> IF "children" \in srf.v.keys THEN srf.v.children ELSE locals.children,
     parent |-> IF "parent" \in srf.v.keys THEN srf.v.parent ELSE locals.parent]

Attributes(srf) ==
    [t |-> "dict", v |-> [keys |-> srf.v.keys \ {"type", "children", "parent"},
                          slope |-> srf.v.slope]]

\* for i, srf in enumerate(semantics_obj['surfaces']), from entry i on; `acc` is
\* semantic_surfaces, the entry of key n at position n + 1 (lines 186-201).
RECURSIVE SurfacesLoop(_, _, _, _)
SurfacesLoop(entries, i, locals, acc) ==
    IF i >= Len(entries) THEN Ok(PyMap(acc))
    ELSE LET srf == entries[i + 1] IN
         IF srf.t # "dict" THEN Raise("AttributeError")
         ELSE LET bound == BindLocals(locals, srf) IN
              IF ~({"type", "children", "parent"} \subseteq bound.bound)
              THEN Raise("UnboundLocalError")
              ELSE LET made == SemanticSurfaceInit(bound.type, Missing, bound.children,
                                                   bound.parent, Attributes(srf))
                   IN IF made.status # "ok" THEN made
                      ELSE SurfacesLoop(entries, i + 1, bound, Append(acc, made.value))

\* Variant: the entries are stored as they are, whatever values holds.
DereferenceSurfacesKeepEntries(semantics_obj) ==
    IF Falsy(semantics_obj) THEN Ok(PyMap(<<>>))
    ELSE IF "surfaces" \notin semantics_obj.v.keys THEN Raise("KeyError")
    ELSE IF ~IsList(semantics_obj.v.surfaces) THEN Raise("TypeError")
    ELSE Ok(PyMap(semantics_obj.v.surfaces.v))

DereferenceSurfaces(semantics_obj) ==
    IF Falsy(semantics_obj) THEN Ok(PyMap(<<>>))
    ELSE IF "values" \notin semantics_obj.v.keys THEN Raise("KeyError")
    ELSE IF Falsy(semantics_obj.v.values) THEN Ok(PyMap(<<>>))
    ELSE IF "surfaces" \notin semantics_obj.v.keys THEN Raise("KeyError")
    ELSE IF ~IsList(semantics_obj.v.surfaces) THEN Raise("TypeError")
    ELSE SurfacesLoop(semantics_obj.v.surfaces.v, 0, NoLocals, <<>>)

\* Geometry.__init__: an exception of either step leaves no Geometry.
GeometryInit(type, lod, boundaries, semantics_obj, vertices) ==
    LET b == DereferenceBoundary(type, boundaries, vertices) IN
    IF b.status # "ok" THEN b
    ELSE LET s == DereferenceSurfaces(semantics_obj) IN
         IF s.status # "ok" THEN s
         ELSE Ok([t |-> "Geometry",
                  v |-> [type |-> type, lod |-> lod, boundaries |-> b.value,
                         surfaces |-> s.value]])

(***************************************************************************)
(* Geometry._get_surface_boundaries.                                       *)
(***************************************************************************)
\* r[i[k]] where r is the outcome so far.
Subscript(r, i, k) ==
    IF r.status # "ok" THEN r
    ELSE LET c == GetItem(i, PyInt(k)) IN
         IF c.status # "ok" THEN c ELSE GetItem(r.value, c.value)

BoundaryAt(boundaries, i) ==
    IF ~IsList(i) THEN Raise("TypeError")
    ELSE IF Len(i.v) = 1 THEN Subscript(Ok(boundaries), i, 0)
    ELSE IF Len(i.v) = 2 THEN Subscript(Subscript(Ok(boundaries), i, 0), i, 1)
    ELSE Subscript(Subscript(Subscript(Ok(boundaries), i, 0), i, 1), i, 2)

GetSurfaceBoundaries(boundaries, surface_idx) ==
    IF Falsy(surface_idx) THEN Ok(PyList(<<>>))
    ELSE IF ~IsList(surface_idx) THEN Raise("TypeError")
    ELSE Collect([n \in 1..Len(surface_idx.v) |-> BoundaryAt(boundaries, surface_idx.v[n])])

(***************************************************************************)
(* Inputs of the Geometry constructor and of the surface resolver.         *)
(***************************************************************************)
EntryFull == SurfaceEntry({"type", "children", "parent"}, str_WallSurface,
                          PyList(<<PyInt(1)>>), None, None)
EntryAttr == SurfaceEntry({"type", "children", "parent", "slope"}, str_RoofSurface,
                          PyList(<<>>), PyInt(0), PyInt(30))
EntryTypeOnly == SurfaceEntry({"type"}, str_RoofSurface, None, None, None)
EntryEmpty == SurfaceEntry({}, None, None, None, None)

SurfaceLists ==
    {None, PyList(<<>>), PyList(<<EntryFull>>), PyList(<<EntryTypeOnly>>),
     PyList(<<EntryEmpty>>), PyList(<<EntryFull, EntryAttr>>),
     PyList(<<EntryFull, EntryTypeOnly>>), PyList(<<None>>)}

SemanticsValues ==
    {None, PyList(<<>>), PyList(<<None>>), PyList(<<PyInt(0)>>),
     PyList(<<PyInt(0), PyInt(1), PyInt(0)>>),
     PyList(<<PyList(<<PyInt(0), None>>), PyList(<<PyInt(1)>>)>>),
     PyList(<<PyList(<<PyList(<<PyList(<<PyInt(0)>>)>>)>>)>>)}

SemanticsArgs ==
    {None, SemanticsObj({}, None, None)}
    \cup {SemanticsObj({"surfaces"}, None, sl) : sl \in SurfaceLists}
    \cup {SemanticsObj({"values"}, vs, None) : vs \in SemanticsValues}
    \cup {SemanticsObj({"values", "surfaces"}, vs, sl) :
            vs \in SemanticsValues, sl \in SurfaceLists}

SmallBoundaries ==
    {None, PyList(<<PyInt(0), PyInt(1)>>), PyList(<<PyInt(MaxVertices)>>),
     PyList(<<PyList(<<PyList(<<PyInt(0), PyInt(1), PyInt(0)>>)>>)>>)}

PlainGeometryCalls(depth) ==
    {[op |-> "Geometry", btype |-> ty, boundary |-> b, vertices |-> vt, semantics |-> None] :
        ty \in {str_MultiPoint, PyStr(Upper(str_MultiSurface.v)), str_Solid,
                str_CompositeSolid, str_GeometryInstance},
        b \in BoundariesAt(depth), vt \in {None, Table(MaxVertices)}}
SemanticGeometryCalls ==
    {[op |-> "Geometry", btype |-> ty, boundary |-> b, vertices |-> vt, semantics |-> so] :
        ty \in {str_MultiPoint, str_MultiSurface, str_GeometryInstance},
        b \in SmallBoundaries, vt \in {Table(MaxVertices)}, so \in SemanticsArgs}

Comps == {PyInt(n) : n \in -1..MaxVertices}
Addresses ==
    {PyList(s) : s \in [1..1 -> Comps] \cup [1..2 -> Comps] \cup [1..3 -> Comps]}
    \cup {PyList(<<>>), PyList(<<PyInt(0), PyInt(0), PyInt(0), PyInt(MaxVertices)>>)}
AddressSample == {PyList(<<PyInt(0)>>), PyList(<<PyInt(1), PyInt(0)>>)}
AddressLists ==
    {None} \cup Wrap(Addresses) \cup Pairs(AddressSample, Addresses)
           \cup Pairs(Addresses, AddressSample)

ResolveBoundaries ==
    {PyList(<<>>),
     PyList(<<Vertex(0), Vertex(1)>>),
     PyList(<<PyList(<<PyList(<<Vertex(0), Vertex(1)>>)>>),
              PyList(<<PyList(<<Vertex(1)>>), PyList(<<Vertex(0)>>)>>)>>),
     PyList(<<PyList(<<PyList(<<PyList(<<Vertex(0), Vertex(1)>>)>>),
                       PyList(<<PyList(<<Vertex(1)>>)>>)>>)>>)}

ResolveCalls ==
    {[op |-> "get_surface_boundaries", boundaries |-> b, surface_idx |-> al] :
        b \in ResolveBoundaries, al \in AddressLists}

(***************************************************************************)
(* CityModel.get_cityobjects and the iteration of what it returns.         *)
(***************************************************************************)
NoGen == [kind |-> "none", pos |-> 0, target |-> <<>>]

\* The returned object: the collection itself, or a generator over it that
\* has not started.
GetCityObjects(cityobjects, type) ==
    IF IsNone(type) THEN Ok([t |-> "list", v |-> cityobjects])
    ELSE IF type.t # "str" THEN Raise("TypeError")
    ELSE Ok([t |-> "generator", v |-> Lower(type.v)])

\* iter(obj): a list gives a fresh iterator at its start, a generator is its
\* own iterator and keeps its position.
\* Variant: a generator restarts from the first object.
IterFresh(obj, g) ==
    [kind |-> IF obj.t = "list" THEN "list_iterator" ELSE "generator",
     pos |-> 0, target |-> g.target]

Iter(obj, g) ==
    IF obj.t = "list" THEN [kind |-> "list_iterator", pos |-> 0, target |-> <<>>]
    ELSE g

\* The positions at or after pos that the iterator would yield.
Remaining(g, cityobjects) ==
    {n \in (g.pos + 1)..Len(cityobjects) :
        g.kind = "list_iterator" \/ Lower(cityobjects[n].type.v) = g.target}

(***************************************************************************)
(* The state machines.                                                     *)
(***************************************************************************)
Pending == Raise("pending")

InitGeometry ==
    /\ pc = "call"
    /\ \/ \E depth \in 0..4 : call \in DerefCalls(depth)
       \/ \E depth \in 0..4 : call \in PlainGeometryCalls(depth)
       \/ call \in SemanticGeometryCalls
       \/ call \in ResolveCalls
    /\ result = Pending
    /\ gen = NoGen
    /\ yielded = <<>>

DoDereferenceBoundary ==
    /\ pc = "call"
    /\ call.op = "dereference_boundary"
    /\ result' = DereferenceBoundary(call.btype, call.boundary, call.vertices)
    /\ pc' = "done"
    /\ UNCHANGED <<call, gen, yielded>>

DoGeometry ==
    /\ pc = "call"
    /\ call.op = "Geometry"
    /\ result' = GeometryInit(call.btype, PyInt(1), call.boundary, call.semantics,
                              call.vertices)
    /\ pc' = "done"
    /\ UNCHANGED <<call, gen, yielded>>

DoGetSurfaceBoundaries ==
    /\ pc = "call"
    /\ call.op = "get_surface_boundaries"
    /\ result' = GetSurfaceBoundaries(call.boundaries, call.surface_idx)
    /\ pc' = "done"
    /\ UNCHANGED <<call, gen, yielded>>

NextGeometry == DoDereferenceBoundary \/ DoGeometry \/ DoGetSurfaceBoundaries

SpecGeometry == InitGeometry /\ [][NextGeometry]_vars

InitSurface ==
    /\ pc = "call"
    /\ \/ \E family \in 1..4 : call \in IndexCalls(family)
       \/ \E family \in 1..4 : call \in SemanticSurfaceCalls(family)
    /\ result = Pending
    /\ gen = NoGen
    /\ yielded = <<>>

DoIndexSurfaceBoundaries ==
    /\ pc = "call"
    /\ call.op = "index_surface_boundaries"
    /\ result' = IndexSurfaceBoundaries(call.values)
    /\ pc' = "done"
    /\ UNCHANGED <<call, gen, yielded>>

DoSemanticSurface ==
    /\ pc = "call"
    /\ call.op = "SemanticSurface"
    /\ result' = SemanticSurfaceInit(call.type, call.values, None, None, None)
    /\ pc' = "done"
    /\ UNCHANGED <<call, gen, yielded>>

NextSurface == DoIndexSurfaceBoundaries \/ DoSemanticSurface

SpecSurface == InitSurface /\ [][NextSurface]_vars

ObjectTypes == {str_Building, PyStr(Lower(str_Building.v)), str_Road}
CityObjects ==
    UNION {{[k \in 1..m |-> [id |-> k, type |-> f[k]]] : f \in [1..m -> ObjectTypes]} :
            m \in 0..MaxObjects}
TypeFilters ==
    {None, str_Building, PyStr(Upper(str_Building.v)), str_Road, str_Solid,
     PyInt(7), PyList(<<>>)}

ModelCalls ==
    {[op |-> "get_cityobjects", cityobjects |-> cos, type |-> ty] :
        cos \in CityObjects, ty \in TypeFilters}

InitModel ==
    /\ pc = "call"
    /\ call \in ModelCalls
    /\ result = Pending
    /\ gen = NoGen
    /\ yielded = <<>>

\* cm.get_cityobjects(type)
DoGetCityObjects ==
    /\ pc = "call"
    /\ call.op = "get_cityobjects"
    /\ result' = GetCityObjects(call.cityobjects, call.type)
    /\ IF result'.status # "ok"
       THEN pc' = "done" /\ gen' = gen
       ELSE /\ pc' = "returned"
            /\ gen' = IF result'.value.t = "generator"
                      THEN [kind |-> "generator", pos |-> 0, target |-> result'.value.v]
                      ELSE gen
    /\ UNCHANGED <<call, yielded>>

\* A for loop over the returned object begins.
IterStart ==
    /\ pc = "returned"
    /\ Len(yielded) < MaxPasses
    /\ gen' = Iter(result.value, gen)
    /\ yielded' = Append(yielded, <<>>)
    /\ pc' = "iterating"
    /\ UNCHANGED <<call, result>>

\* next() on the loop's iterator yields an object.
IterNext ==
    /\ pc = "iterating"
    /\ Remaining(gen, call.cityobjects) # {}
    /\ LET n == SetMin(Remaining(gen, call.cityobjects)) IN
       /\ yielded' = [yielded EXCEPT ![Len(yielded)] = Append(@, call.cityobjects[n])]
       /\ gen' = [gen EXCEPT !.pos = n]
    /\ UNCHANGED <<pc, call, result>>

\* next() raises StopIteration and the loop ends; a generator stays exhausted.
IterStop ==
    /\ pc = "iterating"
    /\ Remaining(gen, call.cityobjects) = {}
    /\ gen' = [gen EXCEPT !.pos = Len(call.cityobjects)]
    /\ pc' = "returned"
    /\ UNCHANGED <<call, result, yielded>>

NextModel == DoGetCityObjects \/ IterStart \/ IterNext \/ IterStop

SpecModel == InitModel /\ [][NextModel]_vars

(***************************************************************************)
(* Properties of the surface index (SpecSurface).                          *)
(***************************************************************************)
\* The element of a nested list at an address of non-negative components,
\* Missing where the address leaves the structure.
RECURSIVE ElementAt(_, _)
ElementAt(x, addr) ==
    IF addr = <<>> THEN x
    ELSE IF IsList(x) /\ Head(addr) >= 0 /\ Head(addr) < Len(x.v)
         THEN ElementAt(x.v[Head(addr) + 1], Tail(addr))
         ELSE Missing

Width == IF MaxValues > MaxWidth THEN MaxValues ELSE MaxWidth
AddrsOfLen(m) == [1..m -> 0..(Width - 1)]
LeafAddrs == AddrsOfLen(1) \cup AddrsOfLen(2) \cup AddrsOfLen(3)

HasFourthLevel(values) == \E a \in AddrsOfLen(3) : IsList(ElementAt(values, a))

\* Traversal order: outer index first, then inner.
LexLess(a, b) ==
    \E n \in 1..Len(b) :
        /\ \A m \in 1..(n - 1) : m <= Len(a) /\ a[m] = b[m]
        /\ \/ Len(a) = n - 1
           \/ Len(a) >= n /\ a[n] < b[n]

IndexCallDone == pc = "done" /\ call.op \in {"index_surface_boundaries", "SemanticSurface"}

ResultIndex ==
    IF call.op = "SemanticSurface" THEN result.value.v.surface_idx.v ELSE result.value.v

\* C2: for a values array of at most three levels with integer or null leaves,
\* the index has exactly the distinct non-null leaf values as keys, and the
\* address list of each key holds exactly the addresses of the leaves equal to
\* it, each once, in traversal order.
C2_IndexExact ==
    (IndexCallDone /\ IsList(call.values) /\ ~HasFourthLevel(call.values)) =>
        /\ result.status = "ok"
        /\ LET idx == ResultIndex IN
           /\ \A m, n \in 1..Len(idx) : idx[m].key = idx[n].key => m = n
           /\ {idx[n].key : n \in 1..Len(idx)} =
                {ElementAt(call.values, a).v :
                    a \in {b \in LeafAddrs : ElementAt(call.values, b).t = "int"}}
           /\ \A n \in 1..Len(idx) :
                /\ {idx[n].addrs[m] : m \in 1..Len(idx[n].addrs)} =
                     {a \in LeafAddrs : ElementAt(call.values, a) = PyInt(idx[n].key)}
                /\ \A m \in 1..(Len(idx[n].addrs) - 1) :
                     LexLess(idx[n].addrs[m], idx[n].addrs[m + 1])

C2_Witness ==
    /\ IndexCallDone /\ IsList(call.values) /\ ~HasFourthLevel(call.values)
    /\ result.status = "ok"
    /\ \E n \in 1..Len(ResultIndex) :
         {Len(ResultIndex[n].addrs[m]) : m \in 1..Len(ResultIndex[n].addrs)} = {1, 2, 3}
    /\ \E a \in LeafAddrs : IsNone(ElementAt(call.values, a))

\* C5: a values array with a list at the fourth nesting level, at any position,
\* fails with the TypeError "too many levels deep" and returns no index.
C5_DepthExceeded ==
    (IndexCallDone /\ IsList(call.values) /\ HasFourthLevel(call.values)) =>
        result.status = "TypeError"

C5_Witness ==
    /\ IndexCallDone
    /\ ElementAt(call.values, <<0>>) = PyInt(0)
    /\ \E a \in AddrsOfLen(3) : a[1] = 1 /\ IsList(ElementAt(call.values, a))
    /\ result.status = "TypeError"

(***************************************************************************)
(* Properties of Geometry (SpecGeometry).                                  *)
(***************************************************************************)
SameIgnoringCase(a, b) ==
    Len(a) = Len(b) /\ \A i \in 1..Len(a) : LowerChar(a[i]) = LowerChar(b[i])

IsKindName(btype) ==
    btype.t = "str" /\ \E n \in KindNames : SameIgnoringCase(btype.v, n.v)

\* The list levels above the rings that the data model fixes for each kind.
FixedDepth(btype) ==
    CASE SameIgnoringCase(btype.v, str_MultiPoint.v) -> 0
      [] SameIgnoringCase(btype.v, str_MultiLineString.v) -> 1
      [] SameIgnoringCase(btype.v, str_MultiSurface.v) -> 2
      [] SameIgnoringCase(btype.v, str_CompositeSurface.v) -> 2
      [] SameIgnoringCase(btype.v, str_Solid.v) -> 3
      [] SameIgnoringCase(btype.v, str_MultiSolid.v) -> 4
      [] SameIgnoringCase(btype.v, str_CompositeSolid.v) -> 4

\* A raw boundary nested as `depth` list levels above rings of integers.
RECURSIVE WellNested(_, _)
WellNested(depth, b) ==
    /\ IsList(b)
    /\ \A k \in 1..Len(b.v) :
         IF depth = 0 THEN b.v[k].t = "int" ELSE WellNested(depth - 1, b.v[k])

RECURSIVE LeafIndices(_, _)
LeafIndices(depth, b) ==
    IF depth = 0 THEN {b.v[k].v : k \in 1..Len(b.v)}
    ELSE UNION {LeafIndices(depth - 1, b.v[k]) : k \in 1..Len(b.v)}

\* `out` has the shape of `raw` with vertices[leaf] in the place of every leaf.
RECURSIVE Resolved(_, _, _, _)
Resolved(depth, raw, out, vertices) ==
    /\ IsList(out)
    /\ Len(out.v) = Len(raw.v)
    /\ \A k \in 1..Len(raw.v) :
         IF depth = 0
         THEN out.v[k].t = "pt" /\ out.v[k] = vertices.v[raw.v[k].v + 1]
         ELSE Resolved(depth - 1, raw.v[k], out.v[k], vertices)

\* A call of _dereference_boundary, directly or as the first step of a
\* constructor whose second step has no semantics to walk.
BoundaryCallDone ==
    /\ pc = "done"
    /\ \/ call.op = "dereference_boundary"
       \/ call.op = "Geometry" /\ call.semantics = None

DerefOutcome ==
    IF call.op = "Geometry" /\ result.status = "ok"
    THEN Ok(result.value.v.boundaries)
    ELSE result

ValidBoundaryCall ==
    /\ IsKindName(call.btype)
    /\ IsList(call.vertices)
    /\ WellNested(FixedDepth(call.btype), call.boundary)

InRange(n, len) == n >= 0 /\ n < len

\* C1: for each of the seven kinds, matched ignoring case, a non-empty raw
\* boundary nested as the kind requires, with every index within
\* 0..len(vertices)-1, dereferences to a structure of the same shape whose
\* leaves are vertices[index]; no index remains.
C1_DereferenceResolves ==
    ( /\ BoundaryCallDone
      /\ ValidBoundaryCall
      /\ call.boundary.v # <<>>
      /\ \A n \in LeafIndices(FixedDepth(call.btype), call.boundary) :
            InRange(n, Len(call.vertices.v)) ) =>
        /\ DerefOutcome.status = "ok"
        /\ Resolved(FixedDepth(call.btype), call.boundary, DerefOutcome.value,
                    call.vertices)

C1_Witness ==
    /\ BoundaryCallDone
    /\ ValidBoundaryCall
    /\ call.btype \notin KindNames
    /\ FixedDepth(call.btype) = 4
    /\ LeafIndices(4, call.boundary) = {0, 1}
    /\ DerefOutcome.status = "ok"

\* C8: for every kind, an empty or absent raw boundary dereferences to an empty
\* boundary without raising, whatever the vertex table is.
C8_EmptyBoundary ==
    ( /\ BoundaryCallDone
      /\ IsKindName(call.btype)
      /\ call.boundary \in {None, PyList(<<>>)} ) =>
        DerefOutcome = Ok(PyList(<<>>))

C8_Witness ==
    /\ BoundaryCallDone
    /\ IsKindName(call.btype)
    /\ call.boundary = None
    /\ call.vertices = None
    /\ result.status = "ok"

\* C10: for a non-empty raw boundary and a type string that is none of the
\* seven kinds ignoring case, dereferencing raises nothing and returns None,
\* and the constructed Geometry has boundaries None.
C10_UnknownKind ==
    ( /\ BoundaryCallDone
      /\ call.btype.t = "str"
      /\ ~IsKindName(call.btype)
      /\ ~Falsy(call.boundary) ) =>
        /\ result.status = "ok"
        /\ DerefOutcome = Ok(None)

C10_Witness ==
    /\ BoundaryCallDone
    /\ call.op = "Geometry"
    /\ call.btype = str_GeometryInstance
    /\ IsList(call.boundary) /\ Len(call.boundary.v) = 2
    /\ result.status = "ok"
    /\ result.value.v.boundaries = None

\* C6: for every kind, a boundary that holds a vertex index outside
\* 0..len(vertices)-1 fails with IndexError: no boundary, no Geometry, and no
\* coordinate in the place of the offending index.
C6_OutOfRangeFails ==
    ( /\ BoundaryCallDone
      /\ ValidBoundaryCall
      /\ \E n \in LeafIndices(FixedDepth(call.btype), call.boundary) :
            ~InRange(n, Len(call.vertices.v)) ) =>
        result.status = "IndexError"

\* What C6 says of an index at or past the end of the table.
C6_PastTheEndFails ==
    ( /\ BoundaryCallDone
      /\ ValidBoundaryCall
      /\ \E n \in LeafIndices(FixedDepth(call.btype), call.boundary) :
            n >= Len(call.vertices.v) ) =>
        result.status = "IndexError"

GeometryDone == pc = "done" /\ call.op = "Geometry"

HasNonEmptyValues(so) ==
    /\ so.t = "dict"
    /\ "values" \in so.v.keys
    /\ IsList(so.v.values)
    /\ so.v.values.v # <<>>

\* C3: constructing a Geometry with a semantics object whose values array is
\* non-empty succeeds, and surfaces[i] is a SemanticSurface with the type of
\* entry i of semantics.surfaces and the addresses in values whose leaf is i.
C3_SurfacesBuilt ==
    ( /\ GeometryDone
      /\ ValidBoundaryCall
      /\ \A n \in LeafIndices(FixedDepth(call.btype), call.boundary) :
            InRange(n, Len(call.vertices.v))
      /\ HasNonEmptyValues(call.semantics)
      /\ ~HasFourthLevel(call.semantics.v.values)
      /\ "surfaces" \in call.semantics.v.keys
      /\ IsList(call.semantics.v.surfaces)
      /\ \A k \in 1..Len(call.semantics.v.surfaces.v) :
            /\ call.semantics.v.surfaces.v[k].t = "dict"
            /\ {"type", "children", "parent"} \subseteq
                   call.semantics.v.surfaces.v[k].v.keys ) =>
        /\ result.status = "ok"
        /\ LET made == result.value.v.surfaces.v
               given == call.semantics.v.surfaces.v
           IN /\ Len(made) = Len(given)
              /\ \A k \in 1..Len(given) :
                   /\ made[k].t = "SemanticSurface"
                   /\ made[k].v.type = given[k].v.type
                   /\ \A a \in LeafAddrs :
                        (ElementAt(call.semantics.v.values, a) = PyInt(k - 1)) <=>
                        (\E e \in 1..Len(made[k].v.surface_idx.v) :
                            \E m \in 1..Len(made[k].v.surface_idx.v[e].addrs) :
                                made[k].v.surface_idx.v[e].addrs[m] = a)

NoValues(so) ==
    \/ so = None
    \/ "values" \notin so.v.keys
    \/ Falsy(so.v.values)

\* C4 as stated: the surfaces of a constructed Geometry are empty if and only
\* if no semantics object was supplied or its values array was empty or absent.
C4_EmptyIffNoValues ==
    (GeometryDone /\ result.status = "ok") =>
        ((result.value.v.surfaces.v = <<>>) <=> NoValues(call.semantics))

\* C4 as amended: the surfaces of a constructed Geometry are empty if and only
\* if no semantics object was supplied, or its values array was empty or
\* absent, or its surfaces array was empty.
C4_EmptyIffNothingToBuild ==
    (GeometryDone /\ result.status = "ok") =>
        ((result.value.v.surfaces.v = <<>>) <=>
            \/ NoValues(call.semantics)
            \/ /\ "surfaces" \in call.semantics.v.keys
               /\ call.semantics.v.surfaces = PyList(<<>>))

C4_Witness ==
    /\ GeometryDone
    /\ result.status = "ok"
    /\ HasNonEmptyValues(call.semantics)
    /\ call.semantics.v.surfaces = PyList(<<>>)
    /\ result.value.v.surfaces = PyMap(<<>>)
    /\ result.value.v.boundaries # PyList(<<>>)

ResolveDone == pc = "done" /\ call.op = "get_surface_boundaries"

IsAddress(a) ==
    /\ IsList(a)
    /\ Len(a.v) \in 1..3
    /\ \A k \in 1..Len(a.v) : a.v[k].t = "int"

Plain(a) == [k \in 1..Len(a.v) |-> a.v[k].v]

\* Following an address through nested lists: "ok" when every component is
\* within 0..len-1 of its level, "range" at the first one that is not, "type"
\* when a level is no list.
RECURSIVE Walk(_, _)
Walk(x, comps) ==
    IF comps = <<>> THEN "ok"
    ELSE IF ~IsList(x) THEN "type"
    ELSE IF InRange(Head(comps), Len(x.v)) THEN Walk(x.v[Head(comps) + 1], Tail(comps))
    ELSE "range"

AddressList ==
    /\ IsList(call.surface_idx)
    /\ call.surface_idx.v # <<>>
    /\ \A n \in 1..Len(call.surface_idx.v) : IsAddress(call.surface_idx.v[n])

Walks == {Walk(call.boundaries, Plain(call.surface_idx.v[n])) :
            n \in 1..Len(call.surface_idx.v)}

\* The first part of C7: the elements, in the order of the addresses.
C7_Elements ==
    (ResolveDone /\ AddressList /\ Walks = {"ok"}) =>
        /\ result.status = "ok"
        /\ Len(result.value.v) = Len(call.surface_idx.v)
        /\ \A n \in 1..Len(call.surface_idx.v) :
             result.value.v[n] = ElementAt(call.boundaries, Plain(call.surface_idx.v[n]))

\* The second part of C7: an empty or absent address list.
C7_Empty ==
    (ResolveDone /\ call.surface_idx \in {None, PyList(<<>>)}) =>
        result = Ok(PyList(<<>>))

\* C7: the resolver returns, in the order of the addresses, the element each
\* address of length 1, 2 or 3 reaches; an empty or absent address list gives an
\* empty sequence; an address component outside 0..len-1 of its level fails
\* with IndexError.
C7_Resolve ==
    /\ C7_Elements
    /\ C7_Empty
    /\ (ResolveDone /\ AddressList /\ Walks \subseteq {"ok", "range"} /\ "range" \in Walks) =>
          result.status = "IndexError"

(***************************************************************************)
(* Properties of CityModel.get_cityobjects (SpecModel).                    *)
(***************************************************************************)
Expected ==
    SelectSeq(call.cityobjects,
              LAMBDA co : IsNone(call.type) \/ SameIgnoringCase(co.type.v, call.type.v))

PassComplete(p) == p < Len(yielded) \/ pc = "returned"

FilterRejected ==
    /\ pc = "done" => result.status = "TypeError"
    /\ (pc # "call" /\ call.type.t \notin {"none", "str"}) =>
          pc = "done" /\ result.status = "TypeError"
    /\ (pc # "call" /\ call.type.t \in {"none", "str"}) => result.status = "ok"

\* C9 as stated: the returned sequence yields the objects whose type equals the
\* filter ignoring case (all objects without a filter), in collection order,
\* and yields them again on a second iteration after it was consumed; a filter
\* that is neither None nor a string fails with TypeError.
C9_Restartable ==
    /\ FilterRejected
    /\ \A p \in 1..Len(yielded) : PassComplete(p) => yielded[p] = Expected

\* C9 as amended: with a filter the first iteration yields the matching
\* objects and every later one yields nothing; without a filter every
\* iteration yields all objects.
C9_SinglePassWithFilter ==
    /\ FilterRejected
    /\ \A p \in 1..Len(yielded) :
         PassComplete(p) =>
            yielded[p] = IF p = 1 \/ IsNone(call.type) THEN Expected ELSE <<>>

C9_Witness ==
    /\ pc = "returned"
    /\ Len(yielded) = 2
    /\ call.type.t = "str"
    /\ {yielded[1][n].type : n \in 1..Len(yielded[1])} =
         {str_Building, PyStr(Lower(str_Building.v))}
    /\ Len(yielded[1]) < Len(call.cityobjects)
    /\ yielded[2] = <<>>

====
